---- MODULE Spec2Model ----
(***************************************************************************)
(* The renaming / overload-resolution pass of check/src/rename.rs.         *)
(*                                                                         *)
(* The recursive traversal RenameVisitor::visit_expr / rename_expr is      *)
(* modelled as a machine over a continuation stack `ctl`: every recursive  *)
(* call of visit_expr is one pending "expr" item, and every point of       *)
(* rename_expr that follows a recursive call is one continuation item.     *)
(* The syntax tree is an input: the content of a node is drawn from small  *)
(* sets at the moment visit_expr reaches it.                                *)
(***************************************************************************)
EXTENDS Integers, Sequences, FiniteSets, TLC

VARIABLES
    env,          \* Environment.env: the global type environment (read-only)
    stack,        \* Environment.stack: ScopedMap<Symbol, (Symbol, TcType)>
    stack_types,  \* Environment.stack_types: ScopedMap<Symbol, Alias>
    errors,       \* RenameVisitor.errors
    ctl,          \* pending calls and continuations of visit_expr, top first
    status,       \* "running", "done" (rename returned) or "aborted" (panic)
    last,         \* what the step just taken did to the node it handled
    size,         \* size of the part of the tree visited so far
    eqA, eqB,     \* operands handed to `equivalent` (specification SpecEq)
    eqRes         \* its result, or "none" before the call

vars == <<env, stack, stack_types, errors, ctl, status, last, size, eqA, eqB, eqRes>>

-----------------------------------------------------------------------------
(* Bounds of the model.                                                    *)

\* size of a syntax tree: an identifier leaf counts 1, a compound node
\* (everything but identifiers and literals) counts 2, a literal nothing
MaxSize == 5
\* alias look-through steps of remove_aliases
MaxAliasDepth == 2
\* function arrows in a type handed to `equivalent` in SpecEq
MaxTypeSize == 1

-----------------------------------------------------------------------------
(* Type terms (base::types::Type).                                         *)

NoType == [k |-> "None"]
TInt == [k |-> "Int"]
TBool == [k |-> "Bool"]
Gen(g) == [k |-> "Gen", id |-> g]
Fun(a, r) == [k |-> "Fun", arg |-> a, ret |-> r]
Data(n) == [k |-> "Data", name |-> n]
Field(n, t) == [name |-> n, typ |-> t]
Rec(fs, ts) == [k |-> "Rec", fields |-> fs, types |-> ts]
Variants(vs) == [k |-> "Var", variants |-> vs]

\* types::Alias: canonical name and optional definition (NoType = opaque)
Alias(n, t) == [name |-> n, typ |-> t]
NoAlias == [name |-> <<>>, typ |-> NoType]

\* Symbols are sequences: <<"x">> is the interned source name x, and the
\* symbol interned for format!("{}:{}", name, location) appends the location.
Sym(n) == <<n>>
Mint(id, loc) == Append(id, loc)

-----------------------------------------------------------------------------
(* base::scoped_map::ScopedMap: entries in insertion order, with a marker  *)
(* for each enter_scope.                                                   *)

Mark == [m |-> TRUE]
Bind(key, val) == [m |-> FALSE, k |-> key, v |-> val]

Reverse(s) == [i \in 1..Len(s) |-> s[Len(s) + 1 - i]]

enter_scope(sm) == Append(sm, Mark)

insert(sm, key, val) == Append(sm, Bind(key, val))

RECURSIVE exit_scope(_)
exit_scope(sm) ==
    IF sm = <<>> THEN <<>>
    ELSE IF sm[Len(sm)].m THEN SubSeq(sm, 1, Len(sm) - 1)
    ELSE exit_scope(SubSeq(sm, 1, Len(sm) - 1))

\* every value bound to key, oldest first
Values(hits) == [i \in 1..Len(hits) |-> hits[i].v]
get_all(sm, key) == Values(SelectSeq(sm, LAMBDA e : (~e.m) /\ e.k = key))

\* the most recent value bound to key
LastOr(all, none) == IF all = <<>> THEN none ELSE all[Len(all)]
get(sm, key, none) == LastOr(get_all(sm, key), none)

\* number of open frames
Frames(sm) == Len(SelectSeq(sm, LAMBDA e : e.m))

-----------------------------------------------------------------------------
(* Environment: the TypeEnv implementation of lines 52-64.                 *)

\* the supplied global environment's find_type / find_type_info
GlobalFindType(id) == IF id \in DOMAIN env.types THEN env.types[id] ELSE NoType
GlobalFindTypeInfo(id) == IF id \in DOMAIN env.aliases THEN env.aliases[id] ELSE NoAlias

NoBinding == [id |-> <<>>, typ |-> NoType]

\* Environment::find_type: the innermost local binding, else the global one
OrGlobalType(local, id) == IF local # NoBinding THEN local.typ ELSE GlobalFindType(id)
find_type(stk, id) == OrGlobalType(get(stk, id, NoBinding), id)

\* Environment::find_type_info
OrGlobalAlias(local, id) == IF local # NoAlias THEN local ELSE GlobalFindTypeInfo(id)
find_type_info(tys, id) == OrGlobalAlias(get(tys, id, NoAlias), id)

\* AliasInstantiator::remove_aliases: look through named aliases
RECURSIVE remove_aliases_n(_, _, _)
Expand(tys, typ, alias, fuel) ==
    IF alias = NoAlias \/ alias.typ = NoType THEN typ
    ELSE remove_aliases_n(tys, alias.typ, fuel - 1)

remove_aliases_n(tys, typ, fuel) ==
    IF typ.k = "Data" /\ fuel > 0
    THEN Expand(tys, typ, find_type_info(tys, typ.name), fuel)
    ELSE typ

remove_aliases(tys, typ) == remove_aliases_n(tys, typ, MaxAliasDepth)

\* RenameVisitor::find_fields: the field layout, or ok = FALSE for None
FieldsOf(t) ==
    IF t.k = "Rec" THEN [ok |-> TRUE, fields |-> t.fields]
    ELSE [ok |-> FALSE, fields |-> <<>>]
find_fields(tys, typ) == FieldsOf(remove_aliases(tys, typ))

\* types::arg_iter: the argument types of a curried function type
RECURSIVE arg_iter(_)
arg_iter(typ) ==
    IF typ.k = "Fun" THEN <<typ.arg>> \o arg_iter(typ.ret) ELSE <<>>

-----------------------------------------------------------------------------
(* The Equivalence Checker, lines 320-389.                                 *)
(* The state threaded through try_match is Equivalent's `map` and `equiv`; *)
(* `overflow` records that the recursion of line 361 never returns.        *)

EmptyMap == [g \in {} |-> NoType]
EqInit == [map |-> EmptyMap, equiv |-> TRUE, overflow |-> FALSE]

\* Substitution::real on the empty substitution of line 322
real(t) == t

\* a checker that refuses to bind a generic to another generic
BindGenericStrict(st, id, r) ==
    IF r.k = "Gen" THEN [st EXCEPT !.equiv = FALSE]
    ELSE [st EXCEPT !.map = (id :> r) @@ @]

\* line 363: first encounter of a generic of the left type
BindGeneric(st, id, r) == [st EXCEPT !.map = (id :> r) @@ @]

\* lines 382-385: zip_match returned Err
Mismatch(st) == [st EXCEPT !.equiv = FALSE]

SameNames(ls, rs) ==
    /\ Len(ls) = Len(rs)
    /\ \A i \in 1..Len(ls) : ls[i].name = rs[i].name

RECURSIVE try_match(_, _, _, _, _)
RECURSIVE match_fields(_, _, _, _)

\* Unifiable::zip_match on two types whose aliases have been looked through:
\* matching shapes are walked pairwise, anything else must be identical
zip_shapes(tys, st, l, r) ==
    IF l.k = "Fun" /\ r.k = "Fun"
    THEN try_match(tys, try_match(tys, st, l.arg, r.arg, 0), l.ret, r.ret, 0)
    ELSE IF l.k = "Rec" /\ r.k = "Rec" /\ SameNames(l.fields, r.fields)
            /\ l.types = r.types
    THEN match_fields(tys, st, l.fields, r.fields)
    ELSE IF l.k = "Var" /\ r.k = "Var" /\ SameNames(l.variants, r.variants)
    THEN match_fields(tys, st, l.variants, r.variants)
    ELSE IF l = r THEN st
    ELSE Mismatch(st)

\* Unifiable::zip_match, line 378: an alias compares by name with itself and
\* is looked through otherwise
zip_match(tys, st, l, r) ==
    IF l.k = "Data" /\ r.k = "Data" /\ l.name = r.name THEN st
    ELSE zip_shapes(tys, st, remove_aliases(tys, l), remove_aliases(tys, r))

\* a try_match without the arm of line 358
match_real_unguarded(tys, st, l, r, hops) ==
    IF l.k = "Gen"
    THEN IF l.id \in DOMAIN st.map
         THEN IF hops > Cardinality(DOMAIN st.map)
              THEN [st EXCEPT !.overflow = TRUE]
              ELSE try_match(tys, st, st.map[l.id], r, hops + 1)
         ELSE BindGeneric(st, l.id, r)
    ELSE zip_match(tys, st, l, r)

\* Equivalent::try_match, lines 357-388, on the dereferenced types; hops
\* counts the consecutive uses of line 361
match_real(tys, st, l, r, hops) ==
    IF l.k = "Gen" /\ r.k = "Gen" /\ l.id = r.id THEN st
    ELSE IF l.k = "Gen"
    THEN IF l.id \in DOMAIN st.map
         THEN IF hops > Cardinality(DOMAIN st.map)
              THEN [st EXCEPT !.overflow = TRUE]
              ELSE try_match(tys, st, st.map[l.id], r, hops + 1)
         ELSE BindGeneric(st, l.id, r)
    ELSE zip_match(tys, st, l, r)

\* Equivalent::try_match, lines 350-356
try_match(tys, st, l, r, hops) == match_real(tys, st, real(l), real(r), hops)

\* the pairwise walk of zip_match over fields or variants with equal names
match_fields(tys, st, ls, rs) ==
    IF ls = <<>> THEN st
    ELSE match_fields(tys, try_match(tys, st, ls[1].typ, rs[1].typ, 0),
                      Tail(ls), Tail(rs))

\* equivalent, lines 320-338, with the final state of the unifier
EquivalentState(tys, actual, inferred) == try_match(tys, EqInit, actual, inferred, 0)

equivalent(tys, actual, inferred) == EquivalentState(tys, actual, inferred).equiv

-----------------------------------------------------------------------------
(* The Candidate Resolver, RenameVisitor::rename, lines 160-186.           *)

\* line 164: the optional `global` candidate
GlobalCandidate(id, typ) == IF typ = NoType THEN <<>> ELSE <<[id |-> id, typ |-> typ]>>

\* lines 161-169: the closure `candidates`
candidates(stk, id) ==
    Reverse(get_all(stk, id)) \o GlobalCandidate(id, find_type(stk, id))

Outcome(kind, id, expected, possible) ==
    [kind |-> kind, id |-> id, expected |-> expected, possible_types |-> possible]

TypesOf(cands) == [i \in 1..Len(cands) |-> cands[i].typ]

\* a resolver that prefers the last equivalent candidate of the scan
ResolveLast(id, expected, cands, hits) ==
    IF Len(cands) <= 1 THEN Outcome("noop", id, expected, <<>>)
    ELSE IF hits # <<>> THEN Outcome("ok", hits[Len(hits)].id, expected, <<>>)
    ELSE Outcome("err", id, expected, TypesOf(cands))

\* lines 173-185, given the candidates and those of them that are equivalent
Resolve(id, expected, cands, hits) ==
    IF Len(cands) <= 1 THEN Outcome("noop", id, expected, <<>>)
    ELSE IF hits # <<>> THEN Outcome("ok", hits[1].id, expected, <<>>)
    ELSE Outcome("err", id, expected, TypesOf(cands))

Equivalents(tys, cands, expected) ==
    SelectSeq(cands, LAMBDA c : equivalent(tys, c.typ, expected))

rename_among(tys, id, expected, cands) ==
    Resolve(id, expected, cands, Equivalents(tys, cands, expected))

rename(stk, tys, id, expected) ==
    rename_among(tys, id, expected, candidates(stk, id))

\* a rewrite that mangles the reference whenever no binding was chosen
unwrap_or_mangled(res, id) == IF res.kind = "ok" THEN res.id ELSE Append(id, <<>>)

\* `new_id.unwrap_or_else(|| id.name.clone())`, lines 195, 207, 219
unwrap_or(res, id) == IF res.kind = "ok" THEN res.id ELSE id

-----------------------------------------------------------------------------
(* Binding sites: stack_var, stack_type and new_pattern, lines 89-158.     *)

\* line 135: the symbol interned for format!("{}:{}", name, location)
MintedName(id, loc) == Mint(id, loc)

\* RenameVisitor::stack_var: the new stack and the minted identity
stack_var(stk, id, loc, typ) ==
    [stack |-> insert(stk, id, [id |-> MintedName(id, loc), typ |-> typ]),
     id |-> MintedName(id, loc)]

\* stack_var over zip(types, args), as in lines 124-127, 249-253 and 264-266;
\* yields the new stack and the arguments with their names rewritten
RECURSIVE stack_args(_, _, _, _, _)
StackedArg(r, typs, args, loc, out) ==
    stack_args(r.stack, Tail(typs), Tail(args), loc,
               Append(out, [args[1] EXCEPT !.name = r.id]))

stack_args(stk, typs, args, loc, out) ==
    IF typs = <<>> \/ args = <<>>
    THEN [stack |-> stk, args |-> out \o args]
    ELSE StackedArg(stack_var(stk, args[1].name, loc, typs[1]), typs, args, loc, out)

\* lines 147-153: the constructors of a variant alias become term bindings
RECURSIVE insert_variants(_, _)
insert_variants(stk, variants) ==
    IF variants = <<>> THEN stk
    ELSE insert_variants(
             insert(stk, variants[1].name,
                    [id |-> variants[1].name, typ |-> variants[1].typ]),
             Tail(variants))

\* a stack_type that forgets line 156: the alias is bound to the local name only
stack_type_local_name(stk, tys, id, alias) ==
    [stack |-> IF alias.typ # NoType /\ alias.typ.k = "Var"
               THEN insert_variants(stk, alias.typ.variants)
               ELSE stk,
     stack_types |-> insert(tys, id, alias)]

\* RenameVisitor::stack_type
stack_type(stk, tys, id, alias) ==
    [stack |-> IF alias.typ # NoType /\ alias.typ.k = "Var"
               THEN insert_variants(stk, alias.typ.variants)
               ELSE stk,
     stack_types |-> insert(insert(tys, alias.name, alias), id, alias)]

\* .find(|f| f.name.name_eq(name)): index of the first field called name, or 0
RECURSIVE FindField(_, _, _)
FindField(fields, name, i) ==
    IF i > Len(fields) THEN 0
    ELSE IF fields[i].name = name THEN i
    ELSE FindField(fields, name, i + 1)

\* Patterns of the syntax tree
PIdent(n, t) == [k |-> "PIdent", id |-> [name |-> n, typ |-> t]]
PRecord(fs, ts) == [k |-> "PRecord", fields |-> fs, types |-> ts]
PCtor(n, as) == [k |-> "PCtor", id |-> [name |-> n, typ |-> NoType], args |-> as]
NoSym == <<>>

\* line 99: the captured name defaults to the field name
CaptureName(f) == IF f.bind # NoSym THEN f.bind ELSE f.name

\* lines 93-101: bind every field capture of a record pattern
RECURSIVE pattern_fields(_, _, _, _, _)
BoundField(r, field_types, fields, loc, out) ==
    pattern_fields(r.stack, field_types, Tail(fields), loc,
                   Append(out, [fields[1] EXCEPT !.bind = r.id]))

FieldFound(stk, field_types, fields, loc, out, j) ==
    IF j = 0 THEN [ok |-> FALSE, stack |-> stk, fields |-> out]
    ELSE BoundField(stack_var(stk, CaptureName(fields[1]), loc, field_types[j].typ),
                    field_types, fields, loc, out)

pattern_fields(stk, field_types, fields, loc, out) ==
    IF fields = <<>> THEN [ok |-> TRUE, stack |-> stk, fields |-> out]
    ELSE FieldFound(stk, field_types, fields, loc, out,
                    FindField(field_types, fields[1].name, 1))

\* lines 107-112: register every type the record pattern imports
RECURSIVE pattern_types(_, _, _, _)
ImportedType(r, imported_types, types) ==
    pattern_types(r.stack, r.stack_types, imported_types, Tail(types))

TypeFound(stk, tys, imported_types, types, j) ==
    IF j = 0 THEN [ok |-> FALSE, stack |-> stk, stack_types |-> tys]
    ELSE ImportedType(stack_type(stk, tys, types[1], imported_types[j].typ),
                      imported_types, types)

pattern_types(stk, tys, imported_types, types) ==
    IF types = <<>> THEN [ok |-> TRUE, stack |-> stk, stack_types |-> tys]
    ELSE TypeFound(stk, tys, imported_types, types,
                   FindField(imported_types, types[1], 1))

\* the outcome of new_pattern; ok = FALSE is a panic (expect / unwrap failed)
PatternResult(ok, stk, tys, pat) ==
    [ok |-> ok, stack |-> stk, stack_types |-> tys, pattern |-> pat]

\* lines 102-112, after the fields
RecordTypesBound(tr, pattern, fields) ==
    PatternResult(tr.ok, tr.stack, tr.stack_types, [pattern EXCEPT !.fields = fields])

RecordFieldsBound(fr, tys, typ, pattern) ==
    IF ~fr.ok THEN PatternResult(FALSE, fr.stack, tys, pattern)
    ELSE RecordTypesBound(
             pattern_types(fr.stack, tys, remove_aliases(tys, typ).types, pattern.types),
             pattern, fr.fields)

\* lines 91-101
RecordPattern(ff, stk, tys, typ, pattern, loc) ==
    IF ~ff.ok THEN PatternResult(FALSE, stk, tys, pattern)
    ELSE RecordFieldsBound(pattern_fields(stk, ff.fields, pattern.fields, loc, <<>>),
                           tys, typ, pattern)

\* lines 114-118
IdentPattern(r, tys, pattern) ==
    PatternResult(TRUE, r.stack, tys, [pattern EXCEPT !.id.name = r.id])

\* lines 124-127
CtorArgs(r, tys, pattern) ==
    PatternResult(TRUE, r.stack, tys, [pattern EXCEPT !.args = r.args])

\* lines 119-123
CtorPattern(ctyp, stk, tys, pattern, loc) ==
    IF ctyp = NoType THEN PatternResult(FALSE, stk, tys, pattern)
    ELSE CtorArgs(stack_args(stk, arg_iter(ctyp), pattern.args, loc, <<>>), tys, pattern)

\* RenameVisitor::new_pattern
new_pattern(stk, tys, typ, pattern, loc) ==
    IF pattern.k = "PRecord"
    THEN RecordPattern(find_fields(tys, typ), stk, tys, typ, pattern, loc)
    ELSE IF pattern.k = "PIdent"
    THEN IdentPattern(stack_var(stk, pattern.id.name, loc, pattern.id.typ), tys, pattern)
    ELSE CtorPattern(find_type(stk, pattern.id.name), stk, tys, pattern, loc)

-----------------------------------------------------------------------------
(* Inputs: the global environment and the content of syntax-tree nodes.   *)

X == Sym("x")
Y == Sym("y")
CtorA == Sym("A")
Names == {X, Y}
LookupNames == Names \cup {CtorA}

TcIdent(n, t) == [name |-> n, typ |-> t]

\* type M.T = | A Int, a record type exporting it, and aliases naming them
TypeMT == Data(Sym("M.T"))
AliasT == Alias(Sym("M.T"), Variants(<<Field(CtorA, Fun(TInt, TypeMT))>>))
RecXY == Rec(<<Field(X, TInt), Field(Y, TBool)>>, <<Field(Sym("T"), AliasT)>>)
AliasR == Alias(Sym("R"), RecXY)
AliasU == Alias(Sym("M.U"), TInt)
TypeR == Data(Sym("R"))

GlobalAliases == (Sym("R") :> AliasR)
\* no global term binding at all, or a global x : Bool and the constructor A
EnvEmpty == [types |-> [n \in {} |-> NoType], aliases |-> GlobalAliases]
EnvGlobals == [types |-> (X :> TBool) @@ (CtorA :> Fun(TInt, TypeMT)),
               aliases |-> GlobalAliases]
GlobalEnvs == {EnvEmpty, EnvGlobals}

\* annotated types of identifier and operator references
RefTypes == {TInt, TBool}
Idents == {TcIdent(n, t) : n \in Names, t \in RefTypes}
Operators == {TcIdent(X, t) : t \in RefTypes}

LambdaArgs == {<<TcIdent(X, TInt)>>, <<TcIdent(X, TInt), TcIdent(X, TBool)>>}
LambdaTypes == {Fun(TInt, Fun(TBool, TInt))}

RecordTypes == {TypeR, TInt}
FieldLists ==
    {<<[name |-> X, explicit |-> a], [name |-> Y, explicit |-> b]>> :
        a, b \in BOOLEAN} \ {<<[name |-> X, explicit |-> TRUE], [name |-> Y, explicit |-> TRUE]>>}

ScrutTypes == {TypeR, TInt}
AltPatterns ==
    { PIdent(X, TInt),
      PRecord(<<[name |-> X, bind |-> NoSym], [name |-> Y, bind |-> NoSym]>>, <<>>),
      PRecord(<<[name |-> X, bind |-> NoSym]>>, <<Sym("T")>>),
      PCtor(CtorA, <<TcIdent(X, TInt)>>) }

\* let bindings: pattern, positional arguments, type of the binding
Binding(p, as, t) == [name |-> p, arguments |-> as, typ |-> t]
BindX == Binding(PIdent(X, TInt), <<>>, TInt)
BindF == Binding(PIdent(X, Fun(TBool, TInt)), <<TcIdent(Y, TBool)>>, Fun(TBool, TInt))
BindG == Binding(PIdent(Y, Fun(TInt, TInt)), <<TcIdent(Y, TInt)>>, Fun(TInt, TInt))

\* let x = _ in _, let x = _ and x = _ in _, let x = _ and y y = _ in _,
\* let x y = _ in _, let x y = _ and y y = _ in _
LetGroups == {<<BindX>>, <<BindX, BindX>>, <<BindX, BindG>>, <<BindF>>, <<BindF, BindG>>}

\* number of alternatives of a match
AltCounts == {2}

TypeBindings == { <<[name |-> Sym("T"), alias |-> AliasT]>>,
                  <<[name |-> Sym("U"), alias |-> AliasU]>> }

\* source locations: the position of a node in the tree
Root == <<0>>
Child(loc, i) == Append(loc, i)
PatLoc(loc, i) == Append(Append(loc, i), 0)
SubLoc(loc, i) == Append(Append(loc, i), 1)

-----------------------------------------------------------------------------
(* The traversal.                                                          *)

Expr(loc) == [k |-> "expr", loc |-> loc]

Init ==
    /\ env \in GlobalEnvs
    /\ stack = <<>>
    /\ stack_types = <<>>
    /\ errors = <<>>
    /\ ctl = <<Expr(Root)>>
    /\ status = "running"
    /\ last = [op |-> "start"]
    /\ size = 0
    /\ eqA = NoType /\ eqB = NoType /\ eqRes = "none"

Running == status = "running" /\ ctl # <<>>
Top == ctl[1]
Rest == Tail(ctl)
AtExpr == Running /\ Top.k = "expr"
Leaf == AtExpr /\ size + 1 <= MaxSize
Compound == AtExpr /\ size + 2 <= MaxSize

NoEq == UNCHANGED <<env, eqA, eqB, eqRes>>

\* a visit_expr that records the first failure only
ReportedFirstOnly(res, loc) ==
    IF res.kind = "err" /\ errors = <<>>
    THEN Append(errors, [span |-> loc, symbol |-> res.id, expected |-> res.expected,
                         possible_types |-> res.possible_types])
    ELSE errors

\* visit_expr, lines 286-293: an Err of rename_expr becomes an error record
Reported(res, loc) ==
    IF res.kind = "err"
    THEN Append(errors, [span |-> loc, symbol |-> res.id, expected |-> res.expected,
                         possible_types |-> res.possible_types])
    ELSE errors

\* a fault that is also filed as a diagnostic
PanicReported(what) ==
    /\ status' = "aborted"
    /\ last' = [op |-> "panic", what |-> what]
    /\ errors' = Append(errors, [span |-> Top.loc, symbol |-> NoSym, expected |-> NoType,
                                 possible_types |-> <<>>])
    /\ UNCHANGED <<stack, stack_types, ctl, size>>

\* a failed expect / unwrap / panic!: the pass is aborted
Panic(what) ==
    /\ status' = "aborted"
    /\ last' = [op |-> "panic", what |-> what]
    /\ UNCHANGED <<stack, stack_types, errors, ctl, size>>

\* Expr::Identifier, lines 190-196, given the outcome of self.rename
Identifier(id, res) ==
    /\ errors' = Reported(res, Top.loc)
    /\ last' = [op |-> "ident", loc |-> Top.loc, id |-> id, res |-> res,
                name |-> unwrap_or(res, id.name), typ |-> id.typ]
    /\ ctl' = Rest
    /\ size' = size + 1
    /\ UNCHANGED <<stack, stack_types, status>>
    /\ NoEq

VisitIdentifier(id) ==
    /\ Leaf
    /\ Identifier(id, rename(stack, stack_types, id.name, id.typ))

\* a node without sub-expressions (a literal), line 278
VisitLiteral ==
    /\ AtExpr
    /\ ctl' = Rest
    /\ last' = [op |-> "literal", loc |-> Top.loc]
    /\ UNCHANGED <<stack, stack_types, errors, status, size>>
    /\ NoEq

\* any other node (a call f a), line 278: walk_mut_expr visits the children
VisitCall ==
    /\ Compound
    /\ ctl' = <<Expr(Child(Top.loc, 1)), Expr(Child(Top.loc, 2))>> \o Rest
    /\ last' = [op |-> "call", loc |-> Top.loc]
    /\ size' = size + 2
    /\ UNCHANGED <<stack, stack_types, errors, status>>
    /\ NoEq

\* lines 220-221, which an Err of line 215 skips
Operands(res, loc) ==
    IF res.kind = "err" THEN <<>> ELSE <<Expr(Child(loc, 1)), Expr(Child(loc, 2))>>

\* Expr::BinOp, lines 214-222, given the outcome of self.rename
BinOp(id, res) ==
    /\ errors' = Reported(res, Top.loc)
    /\ ctl' = Operands(res, Top.loc) \o Rest
    /\ last' = [op |-> "binop", loc |-> Top.loc, id |-> id, res |-> res,
                name |-> unwrap_or(res, id.name), typ |-> id.typ,
                visited |-> Len(Operands(res, Top.loc))]
    /\ size' = size + 2
    /\ UNCHANGED <<stack, stack_types, status>>
    /\ NoEq

VisitBinOp(id) ==
    /\ Compound
    /\ BinOp(id, rename(stack, stack_types, id.name, id.typ))

Min(a, b) == IF a < b THEN a ELSE b

\* Expr::Record, lines 197-200: the field layout, zipped with the fields
Record(typ, exprs, ff) ==
    IF ~ff.ok THEN Panic("field_types") /\ NoEq
    ELSE /\ ctl' = <<[k |-> "fields", loc |-> Top.loc, typ |-> typ,
                      field_types |-> SubSeq(ff.fields, 1, Min(Len(ff.fields), Len(exprs))),
                      exprs |-> exprs, i |-> 1, out |-> <<>>]>> \o Rest
         /\ last' = [op |-> "record", loc |-> Top.loc]
         /\ size' = size + 2
         /\ UNCHANGED <<stack, stack_types, errors, status>>
         /\ NoEq

VisitRecord(typ, exprs) ==
    /\ Compound
    /\ Record(typ, exprs, find_fields(stack_types, typ.typ))

\* lines 206-209: the identifier expression synthesized for a shorthand field
Shorthand(res, name, typ) == [kind |-> "ident", name |-> unwrap_or(res, name), typ |-> typ]

\* one turn of the loop of lines 199-212, on field i
Field_(i, field, e, res) ==
    IF e.explicit
    THEN /\ ctl' = <<Expr(Child(Top.loc, i)),
                     [Top EXCEPT !.i = i + 1,
                                 !.out = Append(@, [kind |-> "visited"])]>> \o Rest
         /\ last' = [op |-> "field", loc |-> Top.loc, i |-> i, explicit |-> TRUE]
         /\ errors' = errors
    ELSE IF res.kind = "err"
    THEN /\ ctl' = Rest
         /\ errors' = Reported(res, Top.loc)
         /\ last' = [op |-> "recordEnd", loc |-> Top.loc, exprs |-> Top.exprs,
                     typ |-> Top.typ, out |-> Top.out, res |-> res]
    ELSE /\ ctl' = <<[Top EXCEPT !.i = i + 1,
                                 !.out = Append(@, Shorthand(res, e.name, field.typ))]>>
                   \o Rest
         /\ last' = [op |-> "field", loc |-> Top.loc, i |-> i, explicit |-> FALSE,
                     res |-> res, value |-> Shorthand(res, e.name, field.typ)]
         /\ errors' = errors

RecordField ==
    /\ Running /\ Top.k = "fields" /\ Top.i <= Len(Top.field_types)
    /\ Field_(Top.i, Top.field_types[Top.i], Top.exprs[Top.i],
              rename(stack, stack_types, Top.exprs[Top.i].name,
                     Top.field_types[Top.i].typ))
    /\ UNCHANGED <<stack, stack_types, status, size>>
    /\ NoEq

\* the loop of lines 199-212 is over
RecordDone ==
    /\ Running /\ Top.k = "fields" /\ Top.i > Len(Top.field_types)
    /\ ctl' = Rest
    /\ last' = [op |-> "recordEnd", loc |-> Top.loc, exprs |-> Top.exprs,
                typ |-> Top.typ, out |-> Top.out,
                res |-> Outcome("noop", NoSym, NoType, <<>>)]
    /\ UNCHANGED <<stack, stack_types, errors, status, size>>
    /\ NoEq

\* Expr::Match, lines 223-225: the scrutinee first, then the alternatives
VisitMatch(typ, n) ==
    /\ Compound
    /\ ctl' = <<Expr(Child(Top.loc, 0)),
                [k |-> "alts", loc |-> Top.loc, typ |-> typ, n |-> n, i |-> 1,
                 entry |-> <<>>]>> \o Rest
    /\ last' = [op |-> "match", loc |-> Top.loc]
    /\ size' = size + 2
    /\ UNCHANGED <<stack, stack_types, errors, status>>
    /\ NoEq

\* the scope stack at line 226 of the first alternative of the match on top
FirstEntry == IF Top.i = 1 THEN stack ELSE Top.entry

\* lines 226-230, given the outcome of new_pattern
Alternative(r) ==
    IF ~r.ok THEN Panic("new_pattern") /\ NoEq
    ELSE /\ stack' = r.stack
         /\ stack_types' = r.stack_types
         /\ ctl' = <<Expr(SubLoc(Top.loc, Top.i)),
                     [k |-> "altExit", loc |-> Top.loc, i |-> Top.i,
                      saved |-> stack, saved_types |-> stack_types,
                      pattern |-> r.pattern],
                     [Top EXCEPT !.i = @ + 1, !.entry = FirstEntry]>> \o Rest
         /\ last' = [op |-> "open", construct |-> "alt", loc |-> PatLoc(Top.loc, Top.i),
                     before |-> stack, entry |-> FirstEntry, pattern |-> r.pattern]
         /\ UNCHANGED <<errors, status, size>>
         /\ NoEq

\* lines 226-230: open the frames of one alternative and bind its pattern
AltOpen(pattern) ==
    /\ Running /\ Top.k = "alts" /\ Top.i <= Top.n
    /\ Alternative(new_pattern(enter_scope(stack), enter_scope(stack_types),
                               Top.typ, pattern, PatLoc(Top.loc, Top.i)))

\* lines 231-232
AltExit ==
    /\ Running /\ Top.k = "altExit"
    /\ stack' = exit_scope(stack)
    /\ stack_types' = exit_scope(stack_types)
    /\ ctl' = Rest
    /\ last' = [op |-> "close", construct |-> "alt", loc |-> Top.loc,
                before |-> Top.saved, inner |-> stack, after |-> stack',
                types_before |-> Top.saved_types, types_inner |-> stack_types,
                types_after |-> stack_types']
    /\ UNCHANGED <<errors, status, size>>
    /\ NoEq

\* the loop of line 225 is over
MatchDone ==
    /\ Running /\ Top.k = "alts" /\ Top.i > Top.n
    /\ ctl' = Rest
    /\ last' = [op |-> "matchEnd", loc |-> Top.loc]
    /\ UNCHANGED <<stack, stack_types, errors, status, size>>
    /\ NoEq

\* line 238
is_recursive(bindings) == \A i \in 1..Len(bindings) : bindings[i].arguments # <<>>

\* a pattern loop that stops after the first binding of the group
bind_first_pattern(stk, tys, bindings, loc, i) ==
    IF i > Len(bindings) THEN PatternResult(TRUE, stk, tys, <<>>)
    ELSE new_pattern(stk, tys, bindings[i].typ, bindings[i].name, PatLoc(loc, i))

\* lines 239-245 of a recursive group: bind every pattern, one after the other
RECURSIVE bind_patterns(_, _, _, _, _)
BoundPattern(r, bindings, loc, i) ==
    IF ~r.ok THEN r ELSE bind_patterns(r.stack, r.stack_types, bindings, loc, i + 1)

bind_patterns(stk, tys, bindings, loc, i) ==
    IF i > Len(bindings) THEN PatternResult(TRUE, stk, tys, <<>>)
    ELSE BoundPattern(new_pattern(stk, tys, bindings[i].typ, bindings[i].name,
                                  PatLoc(loc, i)),
                      bindings, loc, i)

LetExitItem(loc, saved) ==
    [k |-> "letExit", loc |-> loc, saved |-> saved, saved_types |-> stack_types]

\* lines 236-245 and 246 of a recursive group, given its bound patterns
LetRecursive(bindings, r) ==
    IF ~r.ok THEN Panic("new_pattern") /\ NoEq
    ELSE /\ stack' = r.stack
         /\ stack_types' = r.stack_types
         /\ ctl' = <<[k |-> "letRec", loc |-> Top.loc, bindings |-> bindings, i |-> 1],
                     LetExitItem(Top.loc, stack)>> \o Rest
         /\ last' = [op |-> "open", construct |-> "letrec", loc |-> Top.loc,
                     before |-> stack, bindings |-> bindings]
         /\ size' = size + 2
         /\ UNCHANGED <<errors, status>>
         /\ NoEq

\* lines 236-241 of a non-recursive group: up to the first right-hand side
LetSequential(bindings) ==
    /\ stack' = enter_scope(stack)
    /\ stack_types' = enter_scope(stack_types)
    /\ ctl' = <<Expr(SubLoc(Top.loc, 1)),
                [k |-> "letPat", loc |-> Top.loc, bindings |-> bindings, i |-> 1],
                LetExitItem(Top.loc, stack)>> \o Rest
    /\ last' = [op |-> "open", construct |-> "let", loc |-> Top.loc,
                before |-> stack, bindings |-> bindings]
    /\ size' = size + 2
    /\ UNCHANGED <<errors, status>>
    /\ NoEq

\* Expr::Let, lines 235-245, up to the first recursive call of visit_expr
VisitLet(bindings) ==
    /\ Compound
    /\ IF is_recursive(bindings)
       THEN LetRecursive(bindings,
                bind_patterns(enter_scope(stack), enter_scope(stack_types),
                              bindings, Top.loc, 1))
       ELSE LetSequential(bindings)

\* what follows the pattern of binding i of a non-recursive group: the next
\* right-hand side (line 241) or the continuation of the let (line 258)
AfterPattern(i, pattern) ==
    IF i < Len(Top.bindings)
    THEN <<Expr(SubLoc(Top.loc, i + 1)),
           [Top EXCEPT !.i = i + 1, !.bindings[i].name = pattern]>>
    ELSE <<Expr(Child(Top.loc, 0))>>

\* lines 243-244 of a non-recursive group, given the outcome of new_pattern
LetPattern(i, r) ==
    IF ~r.ok THEN Panic("new_pattern") /\ NoEq
    ELSE /\ stack' = r.stack
         /\ stack_types' = r.stack_types
         /\ ctl' = AfterPattern(i, r.pattern) \o Rest
         /\ last' = [op |-> "pattern", construct |-> "let", loc |-> PatLoc(Top.loc, i),
                     pattern |-> r.pattern]
         /\ UNCHANGED <<errors, status, size>>
         /\ NoEq

LetPat ==
    /\ Running /\ Top.k = "letPat"
    /\ LetPattern(Top.i, new_pattern(stack, stack_types, Top.bindings[Top.i].typ,
                                     Top.bindings[Top.i].name, PatLoc(Top.loc, Top.i)))

\* the location handed to stack_var at line 252: `expr` is the continuation
\* of the let there
LetArgLocation(loc) == Child(loc, 0)

\* lines 248-254, given the stacked arguments
RecBinding(i, r) ==
    /\ stack' = r.stack
    /\ ctl' = <<Expr(SubLoc(Top.loc, i)),
                [k |-> "recExit", loc |-> Top.loc, i |-> i, saved |-> stack],
                [Top EXCEPT !.i = i + 1, !.bindings[i].arguments = r.args]>> \o Rest
    /\ last' = [op |-> "open", construct |-> "recbind", loc |-> Top.loc,
                before |-> stack, i |-> i, arguments |-> r.args]
    /\ UNCHANGED <<stack_types, errors, status, size>>
    /\ NoEq

\* lines 248-254: the frame of one binding of a recursive group, its arguments
LetRecBind ==
    /\ Running /\ Top.k = "letRec" /\ Top.i <= Len(Top.bindings)
    /\ RecBinding(Top.i, stack_args(enter_scope(stack), arg_iter(Top.bindings[Top.i].typ),
                                    Top.bindings[Top.i].arguments,
                                    LetArgLocation(Top.loc), <<>>))

\* line 255
LetRecExit ==
    /\ Running /\ Top.k = "recExit"
    /\ stack' = exit_scope(stack)
    /\ ctl' = Rest
    /\ last' = [op |-> "close", construct |-> "recbind", loc |-> Top.loc,
                before |-> Top.saved, inner |-> stack, after |-> stack']
    /\ UNCHANGED <<stack_types, errors, status, size>>
    /\ NoEq

\* the loop of line 247 is over: the continuation of the let, line 258
LetRecDone ==
    /\ Running /\ Top.k = "letRec" /\ Top.i > Len(Top.bindings)
    /\ ctl' = <<Expr(Child(Top.loc, 0))>> \o Rest
    /\ last' = [op |-> "letBody", loc |-> Top.loc]
    /\ UNCHANGED <<stack, stack_types, errors, status, size>>
    /\ NoEq

\* a let that forgets line 260: its alias frame stays open
LetExitTermOnly ==
    /\ Running /\ Top.k = "letExit"
    /\ stack' = exit_scope(stack)
    /\ stack_types' = stack_types
    /\ ctl' = Rest
    /\ last' = [op |-> "close", construct |-> "let", loc |-> Top.loc,
                before |-> Top.saved, inner |-> stack, after |-> stack',
                types_before |-> Top.saved_types, types_inner |-> stack_types,
                types_after |-> stack_types']
    /\ UNCHANGED <<errors, status, size>>
    /\ NoEq

\* lines 259-260
LetExit ==
    /\ Running /\ Top.k = "letExit"
    /\ stack' = exit_scope(stack)
    /\ stack_types' = exit_scope(stack_types)
    /\ ctl' = Rest
    /\ last' = [op |-> "close", construct |-> "let", loc |-> Top.loc,
                before |-> Top.saved, inner |-> stack, after |-> stack',
                types_before |-> Top.saved_types, types_inner |-> stack_types,
                types_after |-> stack_types']
    /\ UNCHANGED <<errors, status, size>>
    /\ NoEq

\* lines 263-267, given the stacked arguments
Lambda(r) ==
    /\ stack' = r.stack
    /\ ctl' = <<Expr(Child(Top.loc, 1)),
                [k |-> "lambdaExit", loc |-> Top.loc, saved |-> stack]>> \o Rest
    /\ last' = [op |-> "open", construct |-> "lambda", loc |-> Top.loc,
                before |-> stack, arguments |-> r.args]
    /\ size' = size + 2
    /\ UNCHANGED <<stack_types, errors, status>>
    /\ NoEq

\* Expr::Lambda, lines 262-267
VisitLambda(lambda) ==
    /\ Compound
    /\ Lambda(stack_args(enter_scope(stack), arg_iter(lambda.id.typ),
                         lambda.arguments, Top.loc, <<>>))

\* a lambda that forgets line 268: the frame of its arguments stays open
LambdaExitKeepsFrame ==
    /\ Running /\ Top.k = "lambdaExit"
    /\ stack' = stack
    /\ ctl' = Rest
    /\ last' = [op |-> "close", construct |-> "lambda", loc |-> Top.loc,
                before |-> Top.saved, inner |-> stack, after |-> stack']
    /\ UNCHANGED <<stack_types, errors, status, size>>
    /\ NoEq

\* line 268
LambdaExit ==
    /\ Running /\ Top.k = "lambdaExit"
    /\ stack' = exit_scope(stack)
    /\ ctl' = Rest
    /\ last' = [op |-> "close", construct |-> "lambda", loc |-> Top.loc,
                before |-> Top.saved, inner |-> stack, after |-> stack']
    /\ UNCHANGED <<stack_types, errors, status, size>>
    /\ NoEq

\* the loop of lines 272-274
RECURSIVE stack_type_bindings(_, _, _)
StackedType(r, bindings) == stack_type_bindings(r.stack, r.stack_types, Tail(bindings))

stack_type_bindings(stk, tys, bindings) ==
    IF bindings = <<>> THEN [stack |-> stk, stack_types |-> tys]
    ELSE StackedType(stack_type(stk, tys, bindings[1].name, bindings[1].alias), bindings)

\* lines 271-275, given the stacks after the loop
TypeLet(bindings, r) ==
    /\ stack' = r.stack
    /\ stack_types' = r.stack_types
    /\ ctl' = <<Expr(Child(Top.loc, 1)),
                [k |-> "typeExit", loc |-> Top.loc, saved |-> stack,
                 saved_types |-> stack_types, bindings |-> bindings]>> \o Rest
    /\ last' = [op |-> "open", construct |-> "type", loc |-> Top.loc,
                before |-> stack, bindings |-> bindings]
    /\ size' = size + 2
    /\ UNCHANGED <<errors, status>>
    /\ NoEq

\* Expr::Type, lines 270-275
VisitType(bindings) ==
    /\ Compound
    /\ TypeLet(bindings, stack_type_bindings(stack, enter_scope(stack_types), bindings))

\* line 276
TypeExit ==
    /\ Running /\ Top.k = "typeExit"
    /\ stack_types' = exit_scope(stack_types)
    /\ ctl' = Rest
    /\ last' = [op |-> "close", construct |-> "type", loc |-> Top.loc,
                before |-> Top.saved, inner |-> stack, after |-> stack,
                types_before |-> Top.saved_types, types_inner |-> stack_types,
                types_after |-> stack_types', bindings |-> Top.bindings]
    /\ UNCHANGED <<stack, errors, status, size>>
    /\ NoEq

\* lines 305-310: visit_expr of the root has returned
Return ==
    /\ status = "running" /\ ctl = <<>>
    /\ status' = "done"
    /\ last' = [op |-> "return", ok |-> (errors = <<>>), errors |-> errors]
    /\ UNCHANGED <<stack, stack_types, errors, ctl, size>>
    /\ NoEq

Next ==
    \/ \E id \in Idents : VisitIdentifier(id)
    \/ VisitLiteral
    \/ VisitCall
    \/ \E id \in Operators : VisitBinOp(id)
    \/ \E t \in RecordTypes, es \in FieldLists : VisitRecord(TcIdent(NoSym, t), es)
    \/ RecordField
    \/ RecordDone
    \/ \E t \in ScrutTypes, n \in AltCounts : VisitMatch(t, n)
    \/ \E p \in AltPatterns : AltOpen(p)
    \/ AltExit
    \/ MatchDone
    \/ \E bs \in LetGroups : VisitLet(bs)
    \/ LetPat
    \/ LetRecBind
    \/ LetRecExit
    \/ LetRecDone
    \/ LetExit
    \/ \E as \in LambdaArgs, t \in LambdaTypes :
           VisitLambda([id |-> TcIdent(NoSym, t), arguments |-> as])
    \/ LambdaExit
    \/ \E bs \in TypeBindings : VisitType(bs)
    \/ TypeExit
    \/ Return

Spec == Init /\ [][Next]_vars

-----------------------------------------------------------------------------
(* The Equivalence Checker on its own: `equivalent` applied to two types   *)
(* drawn from the types with at most MaxTypeSize function arrows.          *)

RecGG == Rec(<<Field(X, Gen("g")), Field(Y, Gen("g"))>>, <<>>)
VarG == Variants(<<Field(CtorA, Fun(Gen("g"), TypeMT))>>)
Atoms == {TInt, TBool, Gen("g"), Gen("h"), TypeR, RecGG, VarG}

RECURSIVE TypesOfSize(_)
TypesOfSize(n) ==
    IF n = 0 THEN Atoms
    ELSE UNION { {Fun(a, b) : a \in TypesOfSize(i), b \in TypesOfSize(n - 1 - i)} :
                 i \in 0..(n - 1) }

EqTypes == UNION {TypesOfSize(n) : n \in 0..MaxTypeSize}

InitEq ==
    /\ env = EnvGlobals
    /\ stack = <<>>
    /\ stack_types = <<>>
    /\ errors = <<>>
    /\ ctl = <<>>
    /\ status = "running"
    /\ last = [op |-> "start"]
    /\ size = 0
    /\ eqA \in EqTypes
    /\ eqB \in EqTypes
    /\ eqRes = "none"

\* what the caller of `equivalent` gets: a stack overflow when line 361
\* recurses for ever, else the flag `equiv`
EqResult(st) == IF st.overflow THEN "overflow" ELSE IF st.equiv THEN "true" ELSE "false"

CallEquivalent ==
    /\ eqRes = "none"
    /\ eqRes' = EqResult(EquivalentState(stack_types, eqA, eqB))
    /\ UNCHANGED <<env, stack, stack_types, errors, ctl, status, last, size, eqA, eqB>>

NextEq == CallEquivalent

SpecEq == InitEq /\ [][NextEq]_vars

-----------------------------------------------------------------------------
(* Properties of the Candidate Resolver.                                    *)

\* the bindings of a name that are visible in a scope state, in scan order:
\* the local bindings, innermost and most recent first, then the global one
VisibleBindings(stk, id) ==
    Reverse(get_all(stk, id)) \o GlobalCandidate(id, GlobalFindType(id))

\* the visible bindings whose type is equivalent to the expected type
VisibleEquivalents(stk, tys, id, expected) ==
    Equivalents(tys, VisibleBindings(stk, id), expected)

\* C1: for a name with two or more visible bindings, of which at least one has
\* a type equivalent to the expected type, the resolver returns the identity
\* of the first such binding in scan order (locals newest first, global last),
\* also when that binding is the global one.
C1_ResolvesFirstEquivalent ==
    \A id \in LookupNames, t \in RefTypes :
        (/\ Len(VisibleBindings(stack, id)) >= 2
         /\ VisibleEquivalents(stack, stack_types, id, t) # <<>>)
        => rename(stack, stack_types, id, t)
             = Outcome("ok", VisibleEquivalents(stack, stack_types, id, t)[1].id, t, <<>>)

\* C2: for a name with at most one visible binding (locals and global counted
\* together) the resolver is a no-op for every expected type.
C2_SingleBindingIsNoOp ==
    \A id \in LookupNames, t \in RefTypes :
        Len(VisibleBindings(stack, id)) <= 1
        => rename(stack, stack_types, id, t).kind = "noop"

\* C3: when the resolution of an identifier or operator fails, the candidate
\* types of the error are the types of the visible bindings of the name, each
\* once, in scan order.
C3_ErrorListsVisibleBindings ==
    (last.op \in {"ident", "binop"} /\ last.res.kind = "err")
    => last.res.possible_types = TypesOf(VisibleBindings(stack, last.id.name))

-----------------------------------------------------------------------------
(* Properties of the traversal.                                             *)

\* C4: a failed resolution never stops the traversal: the two operands of a
\* binary operator are rewritten whatever the outcome of the operator, and the
\* loop over the fields of a record construction reaches every field.
C4_FailureKeepsTraversing ==
    /\ last.op = "binop" => last.visited = 2
    /\ last.op = "recordEnd" => Len(last.out) = Len(last.exprs)

\* lookup_all gives the same answer for every name in two scope stacks
SameLookups(a, b) == \A n \in LookupNames : get_all(a, n) = get_all(b, n)

\* C5: when a match alternative, a lambda, a let or the frame of one binding
\* of a recursive let is closed, lookup_all returns for every name what it
\* returned just before the construct was opened; and every alternative of a
\* match is opened on the lookups the first alternative was opened on, so no
\* binding of one alternative is visible in a sibling.
C5_ScopeIsolation ==
    /\ (last.op = "close" /\ last.construct \in {"alt", "lambda", "let", "recbind"})
       => SameLookups(last.after, last.before)
    /\ (last.op = "open" /\ last.construct = "alt")
       => SameLookups(last.before, last.entry)

\* a match alternative inside a scope that binds x has bound x again, and has
\* been closed: the outer binding is the one that is looked up again
C5_ShadowingAlternativeClosed ==
    /\ last.op = "close" /\ last.construct = "alt"
    /\ get_all(last.before, X) # <<>>
    /\ get_all(last.inner, X) # get_all(last.before, X)
    /\ get_all(last.after, X) = get_all(last.before, X)

\* an identity minted by stack_var, as opposed to a source name
IsMinted(sym) == Len(sym) = 2

\* C6: the arguments of two different bindings of one recursive let group are
\* never given the same minted identity, also when they share a source name.
C6_MintedIdentitiesUnique ==
    \A k \in 1..Len(ctl) :
        ctl[k].k = "letRec" =>
            \A i, j \in 1..Len(ctl[k].bindings) :
                i < j =>
                    \A a \in 1..Len(ctl[k].bindings[i].arguments),
                       b \in 1..Len(ctl[k].bindings[j].arguments) :
                        (/\ IsMinted(ctl[k].bindings[i].arguments[a].name)
                         /\ IsMinted(ctl[k].bindings[j].arguments[b].name))
                        => ctl[k].bindings[i].arguments[a].name
                             # ctl[k].bindings[j].arguments[b].name

\* C7: while a right-hand side of a non-recursive let group is rewritten, no
\* entry of the scope stack carries the identity of a pattern of the group,
\* be it the binding's own pattern or that of an earlier or later sibling.
C7_GroupNamesHiddenFromRightHandSides ==
    \A k \in 2..Len(ctl) :
        ctl[k].k = "letPat" =>
            \A j \in 1..Len(ctl[k].bindings), e \in 1..Len(stack) :
                ~stack[e].m => stack[e].v.id # ctl[k].bindings[j].name.id.name

\* the declared type of the field of a record type that has the given name
DeclaredType(ff, name) == ff.fields[FindField(ff.fields, name, 1)].typ

\* C10: when the rewriting of a record construction is over, every field that
\* had an explicit value has been recursed into, and every field that had none
\* holds an identifier whose identity is the resolution of the field's name
\* against the field's declared type and whose type is that declared type.
C10_ShorthandFieldsSynthesized ==
    last.op = "recordEnd" =>
        /\ Len(last.out) = Len(last.exprs)
        /\ \A i \in 1..Len(last.out) :
               IF last.exprs[i].explicit
               THEN last.out[i].kind = "visited"
               ELSE last.out[i]
                      = Shorthand(rename(stack, stack_types, last.exprs[i].name,
                                         DeclaredType(find_fields(stack_types, last.typ.typ),
                                                      last.exprs[i].name)),
                                  last.exprs[i].name,
                                  DeclaredType(find_fields(stack_types, last.typ.typ),
                                               last.exprs[i].name))

-----------------------------------------------------------------------------
(* Properties of the Equivalence Checker.                                   *)

\* the generics of type a with the shape of type b each of them faces, in the
\* order of the pairwise walk of the two types
RECURSIVE GenericPairs(_, _)
RECURSIVE FieldPairs(_, _)
FieldPairs(ls, rs) ==
    IF ls = <<>> THEN <<>>
    ELSE GenericPairs(ls[1].typ, rs[1].typ) \o FieldPairs(Tail(ls), Tail(rs))

GenericPairs(a, b) ==
    IF a.k = "Gen" THEN <<[id |-> a.id, shape |-> b]>>
    ELSE IF a.k = "Fun" /\ b.k = "Fun"
    THEN GenericPairs(a.arg, b.arg) \o GenericPairs(a.ret, b.ret)
    ELSE IF a.k = "Rec" /\ b.k = "Rec" /\ SameNames(a.fields, b.fields)
    THEN FieldPairs(a.fields, b.fields)
    ELSE <<>>

\* one generic faces two different shapes
Inconsistent(ps) ==
    \E i, j \in 1..Len(ps) : i < j /\ ps[i].id = ps[j].id /\ ps[i].shape # ps[j].shape

\* C8: if a generic of type a faces a shape of type b at its first occurrence
\* and a different shape at a later occurrence, the two types are not
\* equivalent, also when the first shape is itself a generic of type b.
C8_GenericConsistent ==
    (eqRes # "none" /\ Inconsistent(GenericPairs(eqA, eqB))) => eqRes = "false"

\* C9, as stated: two generic variables are equivalent only if their ids are
\* identical; two generic variables with different ids are not equivalent.
C9_DistinctGenericsDiffer ==
    (eqRes # "none" /\ eqA.k = "Gen" /\ eqB.k = "Gen")
    => (eqRes = "true" <=> eqA.id = eqB.id)

\* C9, amended: a generic variable is equivalent to every generic variable,
\* whether the two ids are identical or not.
C9_GenericsAreEquivalent ==
    (eqRes # "none" /\ eqA.k = "Gen" /\ eqB.k = "Gen") => eqRes = "true"

\* the checker has compared g with h and found them equivalent
C9_DistinctGenericsCompared ==
    eqA = Gen("g") /\ eqB = Gen("h") /\ eqRes = "true"

-----------------------------------------------------------------------------
(* Shadowing by a match alternative.                                        *)

\* the identities of a sequence of bindings
IdsOf(bs) == {bs[i].id : i \in 1..Len(bs)}

\* the open alternative ctl[k] has a record pattern that binds x, this is the
\* innermost binding of x, and an outer binding of x has another type
ShadowedByAlternative(k) ==
    /\ ctl[k].k = "altExit"
    /\ ctl[k].pattern.k = "PRecord"
    /\ get_all(stack, X) # <<>>
    /\ get(stack, X, NoBinding).id = MintedName(X, PatLoc(ctl[k].loc, ctl[k].i))
    /\ \E b \in 1..Len(VisibleBindings(ctl[k].saved, X)) :
           VisibleBindings(ctl[k].saved, X)[b].typ # get(stack, X, NoBinding).typ

-----------------------------------------------------------------------------
(* Type aliases in scope.                                                   *)

\* lookup_alias in the local alias stack only
LocalAlias(tys, n) == get(tys, n, NoAlias)

\* the names under which an alias can be bound locally
AliasNames == {Sym("T"), Sym("U"), AliasT.name, AliasU.name, AliasR.name}

\* C12: while the body of a type-let is rewritten, each of its aliases is found
\* locally under the name it was bound to and under its canonical name, with
\* the same value; the same holds for a type imported by the record pattern of
\* an open match alternative; and when a type-let, a match alternative or a
\* let is closed, the local alias lookups are those of before it was opened.
C12_AliasDuality ==
    /\ \A k \in 1..Len(ctl) :
           ctl[k].k = "typeExit" =>
               \A b \in 1..Len(ctl[k].bindings) :
                   /\ LocalAlias(stack_types, ctl[k].bindings[b].name)
                        = ctl[k].bindings[b].alias
                   /\ LocalAlias(stack_types, ctl[k].bindings[b].alias.name)
                        = ctl[k].bindings[b].alias
    /\ \A k \in 1..Len(ctl) :
           (ctl[k].k = "altExit" /\ ctl[k].pattern.k = "PRecord") =>
               \A t \in 1..Len(ctl[k].pattern.types) :
                   /\ LocalAlias(stack_types, ctl[k].pattern.types[t]) # NoAlias
                   /\ LocalAlias(stack_types,
                                 LocalAlias(stack_types, ctl[k].pattern.types[t]).name)
                        = LocalAlias(stack_types, ctl[k].pattern.types[t])
    /\ (last.op = "close" /\ last.construct \in {"type", "alt", "let"})
       => \A n \in AliasNames :
              get_all(last.types_after, n) = get_all(last.types_before, n)

\* a type-let that bound T has been closed: T and its canonical name were
\* found locally inside, and are not any more
C12_TypeLetClosed ==
    /\ last.op = "close" /\ last.construct = "type"
    /\ LocalAlias(last.types_inner, Sym("T")) = AliasT
    /\ LocalAlias(last.types_inner, AliasT.name) = AliasT
    /\ LocalAlias(stack_types, Sym("T")) = NoAlias
    /\ LocalAlias(stack_types, AliasT.name) = NoAlias

\* C13: every type of the universe is equivalent to itself, also a type in
\* which one generic variable occurs several times.
C13_Reflexive ==
    (eqRes # "none" /\ eqA = eqB) => eqRes = "true"

\* g -> g has been compared with itself
C13_RepeatedGenericCompared ==
    eqA = Fun(Gen("g"), Gen("g")) /\ eqB = eqA /\ eqRes = "true"

-----------------------------------------------------------------------------
(* The result of the pass.                                                  *)

\* the step just taken resolved a reference (identifier, operator or
\* shorthand field) and the resolution failed
FailedStep ==
    /\ last'.op \in {"ident", "binop", "recordEnd"}
    /\ last'.res.kind = "err"

\* the error record of the failed resolution of the step just taken
FailureRecord ==
    [span |-> last'.loc, symbol |-> last'.res.id, expected |-> last'.res.expected,
     possible_types |-> last'.res.possible_types]

\* what one step does to the error list, to the reference and to the result
EntryPointStep ==
    /\ IF FailedStep THEN errors' = Append(errors, FailureRecord) ELSE errors' = errors
    /\ (last'.op \in {"ident", "binop"} /\ last'.res.kind = "ok")
       => last'.name = last'.res.id
    /\ (last'.op = "field" /\ ~last'.explicit /\ last'.res.kind = "ok")
       => last'.value.name = last'.res.id
    /\ last'.op = "return"
       => /\ last'.ok <=> (errors = <<>>)
          /\ last'.errors = errors

\* C14: every failed resolution appends exactly one located error record, in
\* the order of the failures, and no other step touches the error list; every
\* reference that resolved is rewritten in place to the identity found; and
\* rename returns Ok exactly when the list is empty, else Err of that list.
C14_EntryPoint == [][EntryPointStep]_vars

\* rename has returned Err with two error records, from two failed references
C14_TwoErrorsReturned ==
    /\ status = "done" /\ last.op = "return" /\ ~last.ok
    /\ Len(last.errors) = 2
    /\ last.errors[1].span # last.errors[2].span

-----------------------------------------------------------------------------
(* Nesting of the scope frames.                                             *)

\* the constructs under rewriting that hold an open term frame / alias frame
OpenTermFrames ==
    Len(SelectSeq(ctl, LAMBDA it : it.k \in {"altExit", "letExit", "recExit", "lambdaExit"}))
OpenAliasFrames ==
    Len(SelectSeq(ctl, LAMBDA it : it.k \in {"altExit", "letExit", "typeExit"}))

\* C15: the open term frames and alias frames are exactly those of the
\* constructs whose rewriting has not finished, so a node that finishes leaves
\* as many frames as it found; both stacks have no open frame when rename
\* returns; and every exit_scope finds a frame to close.
C15_FramesNested ==
    /\ Frames(stack) = OpenTermFrames
    /\ Frames(stack_types) = OpenAliasFrames
    /\ status = "done" => (Frames(stack) = 0 /\ Frames(stack_types) = 0)
    /\ (last.op = "close" /\ last.construct # "type")
       => (Frames(last.inner) > 0 /\ Frames(last.after) = Frames(last.before))
    /\ (last.op = "close" /\ last.construct \in {"type", "alt", "let"})
       => /\ Frames(last.types_inner) > 0
          /\ Frames(last.types_after) = Frames(last.types_before)

\* a construct nested in another one has been closed after a resolution failed
C15_NestedCloseAfterFailure ==
    /\ last.op = "close" /\ last.construct \in {"alt", "let"}
    /\ errors # <<>>
    /\ Frames(last.before) >= 1
    /\ Frames(last.types_inner) >= 1

-----------------------------------------------------------------------------
(* Constructors registered by a type-let.                                   *)

\* C16: when a type-let is closed, lookup_all returns for every name, the
\* constructor names included, what it returned before the type-let was
\* entered.
C16_TypeLetConstructorsScoped ==
    (last.op = "close" /\ last.construct = "type")
    => SameLookups(last.after, last.before)

-----------------------------------------------------------------------------
(* Recursive let groups.                                                    *)

\* the scope stack stk is the stack the let found (the `saved` of its exit
\* item), one frame marker, and the pattern of every binding of the group
GroupScope(stk, group, exit) ==
    /\ Len(stk) = Len(exit.saved) + 1 + Len(group.bindings)
    /\ SubSeq(stk, 1, Len(exit.saved)) = exit.saved
    /\ stk[Len(exit.saved) + 1] = Mark
    /\ \A j \in 1..Len(group.bindings) :
           stk[Len(exit.saved) + 1 + j]
             = Bind(group.bindings[j].name.id.name,
                    [id |-> MintedName(group.bindings[j].name.id.name,
                                       PatLoc(group.loc, j)),
                     typ |-> group.bindings[j].name.id.typ])

\* the scope stack starts with the stack the body of binding i was opened on
\* (the `saved` of its exit item), one frame marker, and the arguments of i
OwnFrame(group, body) ==
    /\ Len(stack) >= Len(body.saved) + 1 + Len(group.bindings[body.i].arguments)
    /\ SubSeq(stack, 1, Len(body.saved)) = body.saved
    /\ stack[Len(body.saved) + 1] = Mark
    /\ \A a \in 1..Len(group.bindings[body.i].arguments) :
           /\ ~stack[Len(body.saved) + 1 + a].m
           /\ stack[Len(body.saved) + 1 + a].v.id
                = group.bindings[body.i].arguments[a].name

\* C17: in a recursive let group, whenever a body is about to be rewritten,
\* is rewritten, or the continuation is about to be rewritten, the frame of
\* the let holds the pattern of every binding of the group and nothing else;
\* each body is rewritten on that frame plus a frame of its own that starts
\* with the arguments of its binding, so no argument of a sibling is in scope.
C17_RecursiveGroupScopes ==
    \A k \in 1..Len(ctl) :
        ctl[k].k = "letRec" =>
            IF k = 1 THEN GroupScope(stack, ctl[k], ctl[k + 1])
            ELSE /\ ctl[k - 1].k = "recExit"
                 /\ GroupScope(ctl[k - 1].saved, ctl[k], ctl[k + 1])
                 /\ OwnFrame(ctl[k], ctl[k - 1])

\* the body of the second binding of a recursive group is being rewritten
C17_SecondBodyOpened ==
    /\ last.op = "open" /\ last.construct = "recbind" /\ last.i = 2
    /\ Len(ctl) >= 3 /\ ctl[2].k = "recExit" /\ ctl[3].k = "letRec"
    /\ OwnFrame(ctl[3], ctl[2])

-----------------------------------------------------------------------------
(* Declaration sites.                                                       *)

\* the identities bound in the scope stack
StackIds == {stack[e].v.id : e \in {i \in 1..Len(stack) : ~stack[i].m}}

\* the declared arguments carry minted identities that are bound in the stack
ArgumentsMinted(args) ==
    \A a \in 1..Len(args) : IsMinted(args[a].name) /\ args[a].name \in StackIds

\* the names a pattern declares carry minted identities bound in the stack
PatternMinted(pattern) ==
    IF pattern.k = "PIdent"
    THEN IsMinted(pattern.id.name) /\ pattern.id.name \in StackIds
    ELSE IF pattern.k = "PRecord"
    THEN \A f \in 1..Len(pattern.fields) :
             IsMinted(pattern.fields[f].bind) /\ pattern.fields[f].bind \in StackIds
    ELSE ArgumentsMinted(pattern.args)

\* C18: when the body of a match alternative or of a lambda is about to be
\* rewritten, every name its pattern or argument list declares has been
\* rewritten to a minted identity that is bound in the scope stack; and while
\* the right-hand side of a let binding is rewritten, in a recursive and in a
\* non-recursive group alike, so has every positional argument of the binding.
C18_DeclarationSitesMinted ==
    /\ (last.op = "open" /\ last.construct = "alt") => PatternMinted(last.pattern)
    /\ (last.op = "open" /\ last.construct = "lambda") => ArgumentsMinted(last.arguments)
    /\ \A k \in 2..Len(ctl) :
           /\ ctl[k].k = "letRec"
              => ArgumentsMinted(ctl[k].bindings[ctl[k - 1].i].arguments)
           /\ ctl[k].k = "letPat"
              => ArgumentsMinted(ctl[k].bindings[ctl[k].i].arguments)

-----------------------------------------------------------------------------
(* What a resolution leaves alone.                                          *)

\* the step just taken resolved an identifier or operator reference: the
\* fields id, res, name and typ of `last` are the node before, the outcome,
\* and the node's identity and type annotation after
ReadOnlyStep ==
    last'.op \in {"ident", "binop"} =>
        /\ last'.res.kind \in {"noop", "err"} => last'.name = last'.id.name
        /\ last'.typ = last'.id.typ
        /\ stack' = stack
        /\ stack_types' = stack_types

\* C19: the resolution of an identifier or operator reference that is a no-op
\* or fails leaves the identity of the reference as it was, and on every
\* outcome the type annotation of the node and both scope stacks are unchanged.
C19_ResolverReadOnly == [][ReadOnlyStep]_vars

\* an operator reference has failed to resolve inside a scope and kept its name
C19_FailedReferenceKept ==
    /\ last.op = "binop" /\ last.res.kind = "err"
    /\ last.name = last.id.name
    /\ stack # <<>>

-----------------------------------------------------------------------------
(* Faults and diagnostics.                                                  *)

\* what one step may do about faults: nothing follows an abort; a fault adds
\* nothing to the error list; a pattern whose constructor has no declared type
\* or whose scrutinee type is no record is never bound; and a failed
\* resolution does not abort
FaultStep ==
    /\ status # "aborted"
    /\ last'.op = "panic" => (status' = "aborted" /\ errors' = errors)
    /\ last'.op # "panic" => status' # "aborted"
    /\ (last'.op = "open" /\ last'.construct = "alt" /\ last'.pattern.k = "PCtor")
       => find_type(stack, last'.pattern.id.name) # NoType
    /\ (last'.op = "open" /\ last'.construct = "alt" /\ last'.pattern.k = "PRecord")
       => find_fields(stack_types, Top.typ).ok
    /\ FailedStep => (status' = "running" /\ ctl' = Rest)

\* C20: a constructor pattern without a declared constructor and a record
\* pattern on a type that is no record abort the pass at once, no step follows
\* and no error record is added; a NoMatchingType outcome never aborts.
C20_FaultsAndDiagnostics == [][FaultStep]_vars

\* the pass was aborted by a faulty pattern after a diagnostic was recorded
C20_AbortedAfterDiagnostic ==
    /\ status = "aborted" /\ last.op = "panic" /\ last.what = "new_pattern"
    /\ Len(errors) = 1

====
